---- MODULE Spec2Model ----
(***************************************************************************)
(* Bootcamp curriculum generator: the BootcampForm component, the          *)
(* BootcampFormContainer around it, and the two API variants               *)
(* (pages/api/generate-bootcamp.ts and express_api.js).                    *)
(***************************************************************************)
EXTENDS Integers, Sequences, FiniteSets, TLC

VARIABLES
    formData,       \* BootcampForm: useState<BootcampFormInput>
    errors,         \* BootcampForm: useState<Partial<Record<field, string>>>
    last,           \* the handler that ran last and what it returned
    calls,          \* the calls the last handler made to its collaborators (props, alert)
    loading,        \* BootcampFormContainer: useState(false)
    generatedData,  \* BootcampFormContainer: useState<any>(null)
    jsonContent,    \* BootcampFormContainer: useState<string>('')
    net,            \* generation fetches issued by the container and not yet settled
    reader,         \* FileReader reads started by handleLoadJson and not yet delivered
    effects,        \* what the container's last handler showed or offered (alert, download)
    button,         \* the DOM element #btn-convert-docx, which the handler mutates directly
    converts,       \* conversion fetches issued by handleConvertToDocx and not yet settled
    timers,         \* setTimeout callbacks set by handleConvertToDocx and not yet run
    reqs,           \* API layer: the requests being handled, each with its handler's locals
    fs,             \* API layer: the files under the server's temp directory
    server,         \* API layer: which of the two servers is deployed
    tempDir,        \* API layer: whether the server's temp directory exists
    now             \* API layer: Date.now()

formVars == <<formData, errors>>
containerVars == <<loading, generatedData, jsonContent, net, reader, effects>>
convertVars == <<button, converts, timers>>
uiVars == <<formData, errors, last, calls, loading, generatedData, jsonContent, net, reader,
            effects, button, converts, timers>>
apiVars == <<reqs, fs, server, tempDir, now>>
vars == <<formData, errors, last, calls, loading, generatedData, jsonContent, net, reader,
          effects, button, converts, timers, reqs, fs, server, tempDir, now>>

-----------------------------------------------------------------------------
(* Strings are sequences of characters.                                     *)

MaxStr == 2

Chars == {" ", "a"}

RECURSIVE SeqsUpTo(_, _)
SeqsUpTo(S, n) ==
    IF n = 0 THEN {<<>>}
    ELSE LET shorter == SeqsUpTo(S, n - 1)
         IN  shorter \cup {Append(s, c) : s \in {t \in shorter : Len(t) = n - 1}, c \in S}

Strs == SeqsUpTo(Chars, MaxStr)

IsSpace(c) == c = " "

RECURSIVE TrimStart(_)
TrimStart(s) ==
    IF s = <<>> THEN s
    ELSE IF IsSpace(Head(s)) THEN TrimStart(Tail(s)) ELSE s

RECURSIVE TrimEnd(_)
TrimEnd(s) ==
    IF s = <<>> THEN s
    ELSE IF IsSpace(s[Len(s)]) THEN TrimEnd(SubSeq(s, 1, Len(s) - 1)) ELSE s

\* String.prototype.trim
Trim(s) == TrimEnd(TrimStart(s))

\* a JS string is truthy when it is not the empty string
Truthy(s) == s # <<>>

-----------------------------------------------------------------------------
(* parseInt(value) || 0, as handleChange applies it to the durasi field.    *)

DigitChars == {"0", "1", "2", "4", "5", "8"}

DigitVal(c) ==
    CASE c = "0" -> 0 [] c = "1" -> 1 [] c = "2" -> 2
      [] c = "4" -> 4 [] c = "5" -> 5 [] c = "8" -> 8

\* the value accumulated from the leading digits of s, starting from acc
RECURSIVE DigitsPrefix(_, _, _)
DigitsPrefix(s, acc, seen) ==
    IF s # <<>> /\ Head(s) \in DigitChars
    THEN DigitsPrefix(Tail(s), 10 * acc + DigitVal(Head(s)), TRUE)
    ELSE [nan |-> ~seen, v |-> acc]

\* parseInt: leading white space, an optional sign, then the longest run of digits
ParseInt(value) ==
    LET s == TrimStart(value)
        neg == s # <<>> /\ Head(s) = "-"
        body == IF s # <<>> /\ Head(s) \in {"-", "+"} THEN Tail(s) ELSE s
        r == DigitsPrefix(body, 0, FALSE)
    IN  [nan |-> r.nan, v |-> IF neg THEN 0 - r.v ELSE r.v]

\* parseInt(value) || 0 : NaN and 0 are both falsy
ParseIntOrZero(value) ==
    LET p == ParseInt(value) IN IF p.nan \/ p.v = 0 THEN 0 ELSE p.v

-----------------------------------------------------------------------------
(* BootcampForm                                                             *)

Levels == {"Beginner", "Intermediate", "Advanced"}

FieldNames == {"nama", "durasi", "level", "deskripsi", "additional_context"}

Undefined == "undefined"

MsgNama == "Nama bootcamp wajib diisi"
MsgDurasi == "Durasi harus antara 1-24 minggu"
MsgDeskripsi == "Deskripsi bootcamp wajib diisi"

DurasiMin == 1
DurasiMax == 24

InitialFormData ==
    [nama |-> <<>>, durasi |-> 8, level |-> "Beginner", deskripsi |-> <<>>,
     additional_context |-> <<>>]

DurasiViolatedOffByOne(fd) == fd.durasi < DurasiMin \/ fd.durasi >= DurasiMax

\* the three rules of validate(), each on its own field
NamaViolated(fd) == ~Truthy(Trim(fd.nama))
DurasiViolated(fd) == fd.durasi < DurasiMin \/ fd.durasi > DurasiMax
DeskripsiViolated(fd) == ~Truthy(Trim(fd.deskripsi))

\* newErrors as validate() builds it
NewErrors(fd) ==
    LET keys == (IF NamaViolated(fd) THEN {"nama"} ELSE {})
                \cup (IF DurasiViolated(fd) THEN {"durasi"} ELSE {})
                \cup (IF DeskripsiViolated(fd) THEN {"deskripsi"} ELSE {})
    IN  [k \in keys |->
            CASE k = "nama" -> MsgNama
              [] k = "durasi" -> MsgDurasi
              [] k = "deskripsi" -> MsgDeskripsi]

\* the value validate() returns: Object.keys(newErrors).length === 0
Validate(fd) == DOMAIN NewErrors(fd) = {}

\* errors[name] is set and truthy
HasError(name) == name \in DOMAIN errors /\ errors[name] # Undefined

\* the value handleChange stores for an input event on field `name`
FieldValue(name, value) == IF name = "durasi" THEN ParseIntOrZero(value) ELSE value

\* disabled={loading} on the five form controls
FieldDisabled == loading

\* disabled={loading} on the submit button
SubmitDisabled == loading

GenerateNeverDisabled == FALSE

\* disabled={loading} on the generate button
GenerateDisabled == loading

\* handleChange(e) with e.target = {name, value}
HandleChange(name, value) ==
    /\ ~FieldDisabled
    /\ formData' = [formData EXCEPT ![name] = FieldValue(name, value)]
    /\ errors' = IF HasError(name)
                 THEN [k \in DOMAIN errors |-> IF k = name THEN Undefined ELSE errors[k]]
                 ELSE errors
    /\ last' = [op |-> "change", ret |-> TRUE]
    /\ calls' = <<>>

\* the calls handleSubmit makes: onSubmit(formData) when validate() succeeds
SubmitCalls(fd) ==
    IF Validate(fd) THEN <<[fn |-> "onSubmit", arg |-> fd]>> ELSE <<>>

\* the form's handleSubmit(e): validate, then hand the record to onSubmit
FormHandleSubmit ==
    /\ ~SubmitDisabled
    /\ errors' = NewErrors(formData)
    /\ last' = [op |-> "submit", ret |-> Validate(formData)]
    /\ calls' = SubmitCalls(formData)
    /\ UNCHANGED formData

GenerateCallsUnvalidated(fd) == <<[fn |-> "onGenerateAI", arg |-> fd]>>

\* the calls the form's handleGenerateAI makes: onGenerateAI(formData) when validate() succeeds
GenerateCalls(fd) ==
    IF Validate(fd) THEN <<[fn |-> "onGenerateAI", arg |-> fd]>> ELSE <<>>

\* the form's handleGenerateAI(): validate, then hand the record to onGenerateAI
FormHandleGenerateAI ==
    /\ ~GenerateDisabled
    /\ errors' = NewErrors(formData)
    /\ last' = [op |-> "generate", ret |-> Validate(formData)]
    /\ calls' = GenerateCalls(formData)
    /\ UNCHANGED formData

-----------------------------------------------------------------------------
(* JSON.  A text is a sequence of tokens (white space kept as tokens); a    *)
(* value is a record: k its kind, n its number, s its string, m its         *)
(* elements or members in insertion order.                                  *)

NoSuffix == 0 - 1

JNull == [k |-> "null", s |-> "", n |-> 0, m |-> <<>>]
\* the JS value undefined (a missing property, an absent request body)
JUndefined == [k |-> "undefined", s |-> "", n |-> 0, m |-> <<>>]
JNum(x) == [k |-> "num", s |-> "", n |-> x, m |-> <<>>]
\* the number Infinity, which JSON.parse yields for a literal beyond the double range
JInfinity == [k |-> "num", s |-> "Infinity", n |-> 0, m |-> <<>>]
JBool(b) == [k |-> "bool", s |-> "", n |-> IF b THEN 1 ELSE 0, m |-> <<>>]
\* a string; n is the decimal number the string ends with (NoSuffix: none)
JStrT(str, t) == [k |-> "str", s |-> str, n |-> t, m |-> <<>>]
JStr(str) == JStrT(str, NoSuffix)
Member(key, val) == [key |-> key, val |-> val]
JArr(elems) ==
    [k |-> "arr", s |-> "", n |-> 0,
     m |-> IF elems = <<>> THEN <<>> ELSE [i \in DOMAIN elems |-> Member("", elems[i])]]
JObj(members) == [k |-> "obj", s |-> "", n |-> 0, m |-> members]

Tok(t) == [t |-> t, s |-> "", n |-> 0]
TWs(c) == [t |-> "ws", s |-> c, n |-> 0]
TNum(x) == [t |-> "num", s |-> "", n |-> x]
\* a number literal, valid JSON, whose magnitude no double holds
TNumHuge == [t |-> "num", s |-> "1e400", n |-> 0]
TStr(str, x) == [t |-> "str", s |-> str, n |-> x]
Space == TWs(" ")
Newline == TWs("\n")

\* JS truthiness of a JSON value
JsTruthy(v) ==
    ~ \/ v.k = "null"
      \/ v.k = "undefined"
      \/ v.k = "num" /\ v.n = 0 /\ v.s = ""
      \/ v.k = "bool" /\ v.n = 0
      \/ v.k = "str" /\ v.s = "" /\ v.n = NoSuffix

Keys(obj) == {obj.m[i].key : i \in DOMAIN obj.m}

HasKey(obj, key) == obj.k = "obj" /\ key \in Keys(obj)

\* obj[key] of an object that has the key
Get(obj, key) == LET i == CHOOSE i \in DOMAIN obj.m : obj.m[i].key = key IN obj.m[i].val

\* members with key set to val: an existing key keeps its place, a new key goes last
SetMember(members, key, val) ==
    IF \E i \in DOMAIN members : members[i].key = key
    THEN [i \in DOMAIN members |->
             IF members[i].key = key THEN Member(key, val) ELSE members[i]]
    ELSE Append(members, Member(key, val))

ParseFail == [ok |-> FALSE, val |-> JNull, next |-> 0]

RECURSIVE SkipWs(_, _)
SkipWs(toks, i) ==
    IF i <= Len(toks) /\ toks[i].t = "ws" THEN SkipWs(toks, i + 1) ELSE i

RECURSIVE ParseValue(_, _)
RECURSIVE ParseElems(_, _, _)
RECURSIVE ParseMembers(_, _, _)

\* the elements of an array, a value expected at i
ParseElems(toks, i, acc) ==
    LET r == ParseValue(toks, i)
        j == SkipWs(toks, r.next)
    IN  IF ~r.ok \/ j > Len(toks) THEN ParseFail
        ELSE IF toks[j].t = "," THEN ParseElems(toks, j + 1, Append(acc, r.val))
        ELSE IF toks[j].t = "]"
             THEN [ok |-> TRUE, val |-> JArr(Append(acc, r.val)), next |-> j + 1]
        ELSE ParseFail

\* the members of an object, a key expected at or after i
ParseMembers(toks, i, acc) ==
    LET kpos == SkipWs(toks, i)
        cpos == SkipWs(toks, kpos + 1)
        r == ParseValue(toks, cpos + 1)
        j == SkipWs(toks, r.next)
    IN  IF kpos > Len(toks) \/ toks[kpos].t # "str" \/ toks[kpos].n # NoSuffix THEN ParseFail
        ELSE IF cpos > Len(toks) \/ toks[cpos].t # ":" THEN ParseFail
        ELSE IF ~r.ok \/ j > Len(toks) THEN ParseFail
        ELSE IF toks[j].t = ","
             THEN ParseMembers(toks, j + 1, SetMember(acc, toks[kpos].s, r.val))
        ELSE IF toks[j].t = "}"
             THEN [ok |-> TRUE, val |-> JObj(SetMember(acc, toks[kpos].s, r.val)),
                   next |-> j + 1]
        ELSE ParseFail

\* one JSON value, white space before it skipped
ParseValue(toks, i) ==
    LET j == SkipWs(toks, i)
        j2 == SkipWs(toks, j + 1)
    IN  IF j > Len(toks) THEN ParseFail
        ELSE CASE toks[j].t = "num" ->
                    [ok |-> TRUE, val |-> IF toks[j].s = "" THEN JNum(toks[j].n) ELSE JInfinity,
                     next |-> j + 1]
               [] toks[j].t = "str" ->
                    [ok |-> TRUE, val |-> JStrT(toks[j].s, toks[j].n), next |-> j + 1]
               [] toks[j].t = "null" -> [ok |-> TRUE, val |-> JNull, next |-> j + 1]
               [] toks[j].t = "true" -> [ok |-> TRUE, val |-> JBool(TRUE), next |-> j + 1]
               [] toks[j].t = "false" -> [ok |-> TRUE, val |-> JBool(FALSE), next |-> j + 1]
               [] toks[j].t = "[" ->
                    IF j2 <= Len(toks) /\ toks[j2].t = "]"
                    THEN [ok |-> TRUE, val |-> JArr(<<>>), next |-> j2 + 1]
                    ELSE ParseElems(toks, j + 1, <<>>)
               [] toks[j].t = "{" ->
                    IF j2 <= Len(toks) /\ toks[j2].t = "}"
                    THEN [ok |-> TRUE, val |-> JObj(<<>>), next |-> j2 + 1]
                    ELSE ParseMembers(toks, j + 1, <<>>)
               [] OTHER -> ParseFail

\* JSON.parse(text): ok is FALSE where JSON.parse throws
JsonParse(text) ==
    LET r == ParseValue(text, 1)
    IN  IF r.ok /\ SkipWs(text, r.next) > Len(text) THEN r ELSE ParseFail

Indent(d) == [i \in 1..(2 * d) |-> Space]

RECURSIVE Stringify(_, _)
RECURSIVE StringifyItems(_, _, _, _)

\* the members (or elements) from index i on, each on its own line at depth d
StringifyItems(v, i, d, acc) ==
    IF i > Len(v.m) THEN acc
    ELSE LET item == v.m[i]
             key == IF v.k = "obj" THEN <<TStr(item.key, NoSuffix), Tok(":"), Space>> ELSE <<>>
             sep == IF i < Len(v.m) THEN <<Tok(",")>> ELSE <<>>
         IN  StringifyItems(v, i + 1, d,
                 acc \o <<Newline>> \o Indent(d) \o key \o Stringify(item.val, d) \o sep)

\* JSON.stringify(v, null, 2), v nested d levels deep
Stringify(v, d) ==
    CASE v.k = "num" -> IF v.s = "" THEN <<TNum(v.n)>> ELSE <<Tok("null")>>
      [] v.k = "str" -> <<TStr(v.s, v.n)>>
      [] v.k = "null" -> <<Tok("null")>>
      [] v.k = "bool" -> IF v.n = 1 THEN <<Tok("true")>> ELSE <<Tok("false")>>
      [] v.k = "arr" ->
            IF v.m = <<>> THEN <<Tok("["), Tok("]")>>
            ELSE <<Tok("[")>> \o StringifyItems(v, 1, d + 1, <<>>)
                 \o <<Newline>> \o Indent(d) \o <<Tok("]")>>
      [] v.k = "obj" ->
            IF v.m = <<>> THEN <<Tok("{"), Tok("}")>>
            ELSE <<Tok("{")>> \o StringifyItems(v, 1, d + 1, <<>>)
                 \o <<Newline>> \o Indent(d) \o <<Tok("}")>>

JsonStringify(v) == Stringify(v, 0)

-----------------------------------------------------------------------------
(* API layer: requests, the temp directories and the clock.                 *)

MaxReq == 2
MaxTime == 1

ReqIds == 1..MaxReq

\* pages/api/generate-bootcamp.ts (Next.js) and express_api.js
Variants == {"next", "express"}

NoContent == [exists |-> FALSE, text |-> <<>>]
Content(text) == [exists |-> TRUE, text |-> text]

\* path.join(<dir>, 'temp', `bootcamp_${ts}.<ext>`), dir being process.cwd() or __dirname
Path(ext, ts) == <<ext, ts>>
Paths == {"json", "docx"} \X (0..MaxTime)

\* a response: kind says what its body is (json: {success, error, data}; file: a binary
\* document; html: the framework's error page; none: no body)
NoResp ==
    [kind |-> "none", status |-> 0, success |-> FALSE, error |-> "", data |-> JNull,
     file |-> NoContent]
JsonResp(status, success, error, data) ==
    [kind |-> "json", status |-> status, success |-> success, error |-> error, data |-> data,
     file |-> NoContent]
FileResp(content) ==
    [kind |-> "file", status |-> 200, success |-> TRUE, error |-> "", data |-> JNull,
     file |-> content]
\* what Express itself answers when no route matches, and cors() to a preflight
HtmlResp(status, text) ==
    [kind |-> "html", status |-> status, success |-> FALSE, error |-> text, data |-> JNull,
     file |-> NoContent]
EmptyResp(status) ==
    [kind |-> "none", status |-> status, success |-> FALSE, error |-> "", data |-> JNull,
     file |-> NoContent]

NoRun == [exit |-> "none", write |-> NoContent, diag |-> "none"]

\* a request slot nobody uses
IdleReq ==
    [pc |-> "idle", variant |-> "next", endpoint |-> "generate", method |-> "POST",
     body |-> JUndefined,
     ts |-> 0, run |-> NoRun, data |-> JNull, buf |-> NoContent,
     mkdir |-> FALSE, wrote |-> FALSE, spawned |-> FALSE, readOut |-> FALSE, input |-> NoContent,
     unlinked |-> {}, resp |-> NoResp]

-----------------------------------------------------------------------------
(* The form on its own: BootcampForm with its default loading = false and   *)
(* the calls to its onSubmit / onGenerateAI props recorded in `calls`.      *)

EmptyErrors == [k \in {} |-> Undefined]

\* the texts typed into the number input
DurasiTexts ==
    {<<>>, <<"0">>, <<"1">>, <<"8">>, <<"2", "4">>, <<"2", "5">>, <<"-", "1">>, <<" ", "5">>}

CtxTexts == {<<>>, <<"a">>}

\* the values e.target.value can take for the control named `name`
InputsFor(name) ==
    CASE name = "durasi" -> DurasiTexts
      [] name = "level" -> Levels
      [] name = "additional_context" -> CtxTexts
      [] OTHER -> Strs

\* the editor section is not rendered: no #btn-convert-docx in the document; el counts
\* the button elements React has created so far
NoButton == [mounted |-> FALSE, el |-> 0, disabled |-> FALSE, label |-> "Convert to DOCX"]

InitForm ==
    /\ formData = InitialFormData
    /\ errors = EmptyErrors
    /\ last = [op |-> "init", ret |-> TRUE]
    /\ calls = <<>>

InitContainer ==
    /\ loading = FALSE
    /\ generatedData = JNull
    /\ jsonContent = <<>>
    /\ net = <<>>
    /\ reader = <<>>
    /\ effects = <<>>
    /\ button = NoButton
    /\ converts = <<>>
    /\ timers = <<>>

\* the API layer before any request: no request, no temp file, the clock at its origin
InitApi ==
    /\ reqs = [r \in ReqIds |-> IdleReq]
    /\ fs = [p \in Paths |-> NoContent]
    /\ now = 0

\* the browser side, with servers that have never run
Init == InitForm /\ InitContainer /\ InitApi /\ server = "next" /\ tempDir = FALSE

FormChange ==
    \E name \in FieldNames : \E value \in InputsFor(name) :
        HandleChange(name, value) /\ UNCHANGED containerVars /\ UNCHANGED <<apiVars, convertVars>>

FormSubmit == FormHandleSubmit /\ UNCHANGED containerVars /\ UNCHANGED <<apiVars, convertVars>>

FormGenerate == FormHandleGenerateAI /\ UNCHANGED containerVars /\ UNCHANGED <<apiVars, convertVars>>

NextForm == FormChange \/ FormSubmit \/ FormGenerate

SpecForm == Init /\ [][NextForm]_vars

-----------------------------------------------------------------------------
(* Claims about the form.                                                   *)

NameEmpty(fd) == Trim(fd.nama) = <<>>
DurationOutside(fd) == ~(fd.durasi \in 1..24)
DescriptionEmpty(fd) == Trim(fd.deskripsi) = <<>>
RulesHold(fd) == ~NameEmpty(fd) /\ ~DurationOutside(fd) /\ ~DescriptionEmpty(fd)

Validated == last.op \in {"submit", "generate"}

\* C1: after validate() has run on the form record, it has returned false exactly
\* when the trimmed name is empty, the duration is outside [1,24] or the trimmed
\* description is empty, and the error map holds a (truthy) entry for nama, durasi,
\* deskripsi exactly for the rules violated, each decided by its own field alone;
\* it returned true with an empty error map otherwise.
C1_ValidateRules ==
    Validated =>
        /\ last.ret = RulesHold(formData)
        /\ DOMAIN errors \subseteq {"nama", "durasi", "deskripsi"}
        /\ ("nama" \in DOMAIN errors) = NameEmpty(formData)
        /\ ("durasi" \in DOMAIN errors) = DurationOutside(formData)
        /\ ("deskripsi" \in DOMAIN errors) = DescriptionEmpty(formData)
        /\ \A k \in DOMAIN errors : errors[k] # Undefined
        /\ (last.ret => errors = EmptyErrors)

\* validate() has reported the duration alone, on a record whose name and description pass
C1_Witness ==
    /\ Validated
    /\ ~last.ret
    /\ DOMAIN errors = {"durasi"}
    /\ formData.durasi = 25
    /\ formData.nama = <<"a">>

\* C2: a form submit calls onSubmit exactly once and a click on generate calls
\* onGenerateAI exactly once, with the current form record, if and only if the
\* record passes the three rules; when it does not, no handler is called; either
\* way the trigger leaves the form record as it was.
C2_HandlersIffValid ==
    [][ /\ last'.op = "submit" =>
            /\ formData' = formData
            /\ calls' = IF RulesHold(formData)
                        THEN <<[fn |-> "onSubmit", arg |-> formData]>> ELSE <<>>
        /\ last'.op = "generate" =>
            /\ formData' = formData
            /\ calls' = IF RulesHold(formData)
                        THEN <<[fn |-> "onGenerateAI", arg |-> formData]>> ELSE <<>>
      ]_vars

\* generate was clicked after field changes on a valid record and the handler was called once
C2_Witness ==
    /\ last.op = "generate"
    /\ formData.nama # <<>>
    /\ formData.durasi = 24
    /\ Len(calls) = 1
    /\ calls[1].fn = "onGenerateAI"
    /\ calls[1].arg = formData

-----------------------------------------------------------------------------
(* BootcampFormContainer                                                    *)

MaxNet == 2
MaxReads == 1

Alert(msg) == [fn |-> "alert", msg |-> msg, text |-> <<>>]
Download(text) == [fn |-> "download", msg |-> "", text |-> text]

AlertSubmitted == "Form submitted! (Manual logic to be implemented)"
AlertGenerated == "AI Generation Successful! Please review the JSON below."
AlertGenerateError == "Error: "
AlertLoaded == "JSON Loaded Successfully! You can now edit and convert it."
AlertLoadError == "Error loading JSON: Invalid format"
AlertDownloadError == "Invalid JSON content. Please fix errors before downloading."

RemoveAt(seq, i) == SubSeq(seq, 1, i - 1) \o SubSeq(seq, i + 1, Len(seq))

\* the container's handleSubmit(formData): log and alert
ContainerHandleSubmit(fd) ==
    /\ effects' = <<Alert(AlertSubmitted)>>
    /\ UNCHANGED <<loading, generatedData, jsonContent, net, reader>>

\* the container's handleGenerateAI(formData) up to its first await:
\* setLoading(true) and the POST to /api/generate-bootcamp
ContainerHandleGenerateAI(fd) ==
    /\ Len(net) < MaxNet
    /\ loading' = TRUE
    /\ net' = Append(net, [url |-> "/api/generate-bootcamp", method |-> "POST", body |-> fd])
    /\ effects' = <<>>
    /\ UNCHANGED <<generatedData, jsonContent, reader>>

\* documents the generate endpoint may answer with
SampleDocs ==
    {JObj(<<Member("modules", JArr(<<>>)), Member("identitas", JObj(<<Member("nama", JStr("a"))>>))>>)}

\* what fetch() and response.json() may deliver: a rejection, a non-OK status, a body
\* that is no JSON, or a JSON body
Responses ==
    {[kind |-> "reject", ok |-> FALSE, json |-> FALSE, body |-> JNull],
     [kind |-> "http", ok |-> FALSE, json |-> TRUE,
      body |-> JObj(<<Member("success", JBool(FALSE)), Member("error", JStr("x"))>>)],
     [kind |-> "http", ok |-> TRUE, json |-> FALSE, body |-> JNull],
     [kind |-> "http", ok |-> TRUE, json |-> TRUE, body |-> JNull],
     [kind |-> "http", ok |-> TRUE, json |-> TRUE,
      body |-> JObj(<<Member("success", JBool(TRUE))>>)],
     [kind |-> "http", ok |-> TRUE, json |-> TRUE,
      body |-> JObj(<<Member("success", JBool(FALSE)), Member("data", JObj(<<>>))>>)]}
    \cup {[kind |-> "http", ok |-> TRUE, json |-> TRUE,
           body |-> JObj(<<Member("success", JBool(TRUE)), Member("data", d)>>)] : d \in SampleDocs}

\* data.success && data.data, for the body response.json() resolved with
ResponseAccepted(resp) ==
    /\ resp.kind = "http" /\ resp.ok /\ resp.json
    /\ HasKey(resp.body, "success") /\ JsTruthy(Get(resp.body, "success"))
    /\ HasKey(resp.body, "data") /\ JsTruthy(Get(resp.body, "data"))

\* the rest of handleGenerateAI once the fetch of request i settles with resp:
\* store the document and its indented text, or alert the error; finally setLoading(false)
GenerateSettled(i, resp) ==
    /\ net' = RemoveAt(net, i)
    /\ loading' = FALSE
    /\ IF ResponseAccepted(resp)
       THEN /\ generatedData' = Get(resp.body, "data")
            /\ jsonContent' = JsonStringify(Get(resp.body, "data"))
            /\ effects' = <<Alert(AlertGenerated)>>
       ELSE /\ effects' = <<Alert(AlertGenerateError)>>
            /\ UNCHANGED <<generatedData, jsonContent>>
    /\ last' = [op |-> "generateSettled", ret |-> ResponseAccepted(resp)]
    /\ calls' = <<>>
    /\ UNCHANGED <<formData, errors, reader>>

NoFile == [present |-> FALSE, text |-> <<>>]
File(text) == [present |-> TRUE, text |-> text]

\* handleLoadJson(event): return when no file was chosen, else start reading it as text
HandleLoadJson(file) ==
    /\ IF file.present
       THEN /\ Len(reader) < MaxReads
            /\ reader' = Append(reader, file.text)
       ELSE UNCHANGED reader
    /\ last' = [op |-> "loadJson", ret |-> file.present]
    /\ calls' = <<>>
    /\ effects' = <<>>
    /\ UNCHANGED <<formData, errors, loading, generatedData, jsonContent, net>>

LoadedAlwaysSetsBuffer(content) ==
    LET parsed == JsonParse(content)
    IN  [ok |-> parsed.ok,
         data |-> IF parsed.ok THEN parsed.val ELSE generatedData,
         buffer |-> content,
         shown |-> IF parsed.ok THEN <<Alert(AlertLoaded)>> ELSE <<Alert(AlertLoadError)>>]

\* reader.onload: what the try block leaves in generatedData and jsonContent, and the alert
Loaded(content) ==
    LET parsed == JsonParse(content)
    IN  IF parsed.ok
        THEN [ok |-> TRUE, data |-> parsed.val, buffer |-> content,
              shown |-> <<Alert(AlertLoaded)>>]
        ELSE [ok |-> FALSE, data |-> generatedData, buffer |-> jsonContent,
              shown |-> <<Alert(AlertLoadError)>>]

\* reader.onload for the read at position i
ReaderOnLoad(i) ==
    LET r == Loaded(reader[i])
    IN  /\ reader' = RemoveAt(reader, i)
        /\ generatedData' = r.data
        /\ jsonContent' = r.buffer
        /\ effects' = r.shown
        /\ last' = [op |-> "readerOnLoad", ret |-> r.ok]
        /\ calls' = <<>>
        /\ UNCHANGED <<formData, errors, loading, net>>

\* the read fails: onload never runs (no onerror handler is set)
ReaderOnError(i) ==
    /\ reader' = RemoveAt(reader, i)
    /\ effects' = <<>>
    /\ last' = [op |-> "readerOnError", ret |-> FALSE]
    /\ calls' = <<>>
    /\ UNCHANGED <<formData, errors, loading, generatedData, jsonContent, net>>

\* {(jsonContent || generatedData) && ...}: the editor section is rendered
EditorRendered == jsonContent # <<>> \/ JsTruthy(generatedData)

\* the text area's onChange: setJsonContent(e.target.value)
EditorChange(text) ==
    /\ EditorRendered
    /\ jsonContent' = text
    /\ effects' = <<>>
    /\ last' = [op |-> "editorChange", ret |-> TRUE]
    /\ calls' = <<>>
    /\ UNCHANGED <<formData, errors, loading, generatedData, net, reader>>

\* handleDownload(): offer the re-serialised buffer, or alert when it does not parse
HandleDownload ==
    LET parsed == JsonParse(jsonContent)
    IN  /\ EditorRendered
        /\ effects' = IF parsed.ok THEN <<Download(JsonStringify(parsed.val))>>
                      ELSE <<Alert(AlertDownloadError)>>
        /\ last' = [op |-> "download", ret |-> parsed.ok]
        /\ calls' = <<>>
        /\ UNCHANGED <<formData, errors, loading, generatedData, jsonContent, net, reader>>

-----------------------------------------------------------------------------
(* The page: the container with the form inside it.                         *)

\* the texts a chosen file holds or the user types into the editor: empty, a number
\* with white space around it, a malformed one, compact documents (one with
\* a number beyond the double range) and an indented document
Texts ==
    {<<>>, <<Space, TNum(1), Newline>>, <<Tok("{")>>,
     <<Tok("{"), TStr("identitas", NoSuffix), Tok(":"), TNum(1), Tok("}")>>,
     <<Tok("{"), TStr("kapasitas", NoSuffix), Tok(":"), TNumHuge, Tok("}")>>}
    \cup {JsonStringify(d) : d \in SampleDocs}

\* what the user types into the form on the page
PageInputsFor(name) ==
    CASE name = "nama" -> {<<"a">>}
      [] name = "deskripsi" -> {<<"a">>}
      [] OTHER -> {}

PageChange ==
    \E name \in FieldNames : \E value \in PageInputsFor(name) :
        /\ HandleChange(name, value)
        /\ effects' = <<>>
        /\ UNCHANGED <<loading, generatedData, jsonContent, net, reader>>
        /\ UNCHANGED <<apiVars, convertVars>>

PageSubmit ==
    /\ UNCHANGED <<apiVars, convertVars>>
    /\ FormHandleSubmit
    /\ IF Validate(formData) THEN ContainerHandleSubmit(formData)
       ELSE effects' = <<>> /\ UNCHANGED <<loading, generatedData, jsonContent, net, reader>>

PageGenerate ==
    /\ UNCHANGED <<apiVars, convertVars>>
    /\ FormHandleGenerateAI
    /\ IF Validate(formData) THEN ContainerHandleGenerateAI(formData)
       ELSE effects' = <<>> /\ UNCHANGED <<loading, generatedData, jsonContent, net, reader>>

NextPage ==
    \/ PageChange
    \/ PageSubmit
    \/ PageGenerate
    \/ \E i \in DOMAIN net : \E resp \in Responses : GenerateSettled(i, resp) /\ UNCHANGED <<apiVars, convertVars>>
    \/ \E file \in {NoFile} \cup {File(t) : t \in Texts} : HandleLoadJson(file) /\ UNCHANGED <<apiVars, convertVars>>
    \/ \E i \in DOMAIN reader : ReaderOnLoad(i) /\ UNCHANGED <<apiVars, convertVars>>
    \/ \E i \in DOMAIN reader : ReaderOnError(i) /\ UNCHANGED <<apiVars, convertVars>>
    \/ \E text \in Texts : EditorChange(text) /\ UNCHANGED <<apiVars, convertVars>>
    \/ HandleDownload /\ UNCHANGED <<apiVars, convertVars>>

SpecPage == Init /\ [][NextPage]_vars

-----------------------------------------------------------------------------
(* Claims about the page.                                                   *)

\* C6: at most one generation request is in flight at any time, whatever the
\* interleaving of clicks, submits, edits, loads and response arrivals.
C6_OneRequestInFlight == Len(net) <= 1

\* a request is in flight and the user has acted on the page since it was issued
C6_Witness == Len(net) = 1 /\ loading /\ last.op = "loadJson"

UserOps == {"change", "submit", "generate", "loadJson", "editorChange", "download"}

\* C7: while a generation request is outstanding no user action changes the form
\* record, the stored document or the editor buffer (every control being disabled),
\* and when the request completes loading is false again.
C7_NoChangeWhileLoading ==
    [][ /\ (loading /\ last'.op \in UserOps) =>
              /\ formData' = formData
              /\ generatedData' = generatedData
              /\ jsonContent' = jsonContent
        /\ last'.op = "generateSettled" => ~loading'
      ]_vars

\* C9: when the text read from the chosen file does not parse, the document and
\* the editor buffer keep their values and an error is alerted; when it parses,
\* the buffer becomes the file text and the document its parsed value, together.
C9_LoadAllOrNothing ==
    [][ last'.op = "readerOnLoad" =>
          \E i \in DOMAIN reader :
              LET content == reader[i]
                  parsed == JsonParse(content)
              IN  /\ reader' = RemoveAt(reader, i)
                  /\ IF parsed.ok
                     THEN /\ jsonContent' = content
                          /\ generatedData' = parsed.val
                          /\ effects' = <<Alert(AlertLoaded)>>
                     ELSE /\ jsonContent' = jsonContent
                          /\ generatedData' = generatedData
                          /\ effects' = <<Alert(AlertLoadError)>>
      ]_vars

\* a malformed file was read after a document had been loaded, and the document is still there
C9_Witness ==
    /\ last.op = "readerOnLoad"
    /\ ~last.ret
    /\ jsonContent # <<>>
    /\ JsTruthy(generatedData)
    /\ effects = <<Alert(AlertLoadError)>>

\* the text offered for download by the last handler, the empty text if there is none
Downloaded == IF effects # <<>> /\ effects[1].fn = "download" THEN effects[1].text ELSE <<>>

\* C11: when a valid JSON file has just been loaded and Save is clicked on the
\* unedited buffer, a download is offered whose text parses to the same value as
\* the loaded file.
C11_RoundTrip ==
    [][(last.op = "readerOnLoad" /\ last.ret /\ last'.op = "download") =>
          /\ effects' = <<Download(Downloaded')>>
          /\ JsonParse(Downloaded').ok
          /\ JsonParse(Downloaded').val = JsonParse(jsonContent).val]_vars

-----------------------------------------------------------------------------
(* API layer: the generate endpoint (both variants).                        *)

ErrMissingNext == "Missing required fields"
ErrMissingExpress == "Missing required fields: nama, durasi, level, deskripsi"
ErrApiKey == "OpenAI API key not found. Please set OPENAI_API_KEY in .env.local file"
ErrInit == "Failed to initialize OpenAI client. Check your API key is valid."
ErrNoOutput == "AI generation failed. Check if OpenAI API key is set in .env.local"
ErrExec == "Command failed"
ErrNoEnt == "ENOENT"
ErrParse == "Unexpected token"
ErrInvalidData == "Invalid bootcamp data"

Kapasitas == 25
KodeModulus == 1000000

\* body[key], undefined when the body has no such key
Field(body, key) == IF HasKey(body, key) THEN Get(body, key) ELSE JUndefined

MissingRequiredNoDeskripsi(body) ==
    \/ ~JsTruthy(Field(body, "nama"))
    \/ ~JsTruthy(Field(body, "durasi"))
    \/ ~JsTruthy(Field(body, "level"))

\* !nama || !durasi || !level || !deskripsi
MissingRequired(body) ==
    \/ ~JsTruthy(Field(body, "nama"))
    \/ ~JsTruthy(Field(body, "durasi"))
    \/ ~JsTruthy(Field(body, "level"))
    \/ ~JsTruthy(Field(body, "deskripsi"))

\* the 400 answer of each variant
MissingResp(variant) ==
    JsonResp(400, FALSE, IF variant = "next" THEN ErrMissingNext ELSE ErrMissingExpress, JNull)

\* a handler that has answered
Answer(q, resp) == [q EXCEPT !.pc = "done", !.resp = resp]

\* the generate handler from the request to its first await (fs.mkdir)
GenerateReceive(r, body) ==
    LET q == [IdleReq EXCEPT !.variant = server, !.endpoint = "generate", !.body = body]
    IN  /\ reqs[r].pc = "idle"
        /\ reqs' = [reqs EXCEPT ![r] =
                      IF MissingRequired(body) THEN Answer(q, MissingResp(server))
                      ELSE [q EXCEPT !.pc = "mkdir", !.ts = now]]
        /\ UNCHANGED <<fs, server, tempDir, now>>

\* a request to /api/generate-bootcamp whose method is not POST: the Next.js handler
\* answers 405 first thing; the Express app has only app.post for this path, so cors()
\* answers a preflight and every other method falls through to the default 404 page
GenerateOtherMethod(r, method, body) ==
    LET q == [IdleReq EXCEPT !.variant = server, !.endpoint = "generate",
                             !.method = method, !.body = body]
    IN  /\ reqs[r].pc = "idle"
        /\ method # "POST"
        /\ reqs' = [reqs EXCEPT ![r] =
                      Answer(q, IF server = "next" THEN JsonResp(405, FALSE, "Method not allowed", JNull)
                                ELSE IF method = "OPTIONS" THEN EmptyResp(204)
                                ELSE HtmlResp(404, "Cannot GET /api/generate-bootcamp"))]
        /\ UNCHANGED <<fs, server, tempDir, now>>

\* fs.mkdir(temp, {recursive: true}) resolves; the command is built and exec starts
GenerateMkdirDone(r) ==
    /\ reqs[r].pc = "mkdir"
    /\ tempDir' = TRUE
    /\ reqs' = [reqs EXCEPT ![r].pc = "exec", ![r].mkdir = TRUE, ![r].spawned = TRUE]
    /\ UNCHANGED <<fs, server, now>>

\* documents the generator script may write
ScriptDocs ==
    {JObj(<<Member("modules", JArr(<<>>))>>),
     JObj(<<Member("id", JStr("x")), Member("identitas", JNum(1)), Member("modules", JArr(<<>>))>>)}

\* a file the script left half-written
PartialText == <<Tok("{"), Newline, Space, Space, TStr("modules", NoSuffix), Tok(":")>>

\* how a run of ai_to_json.py may end: its exit (ok, fail: non-zero, timeout: killed after
\* five minutes), the file it wrote if any, and what its output says
GeneratorRuns ==
    {[exit |-> "ok", write |-> w, diag |-> "none"] :
        w \in {NoContent, Content(PartialText)} \cup {Content(JsonStringify(d)) : d \in ScriptDocs}}
    \cup {[exit |-> "fail", write |-> NoContent, diag |-> d] : d \in {"none", "apikey", "init"}}
    \cup {[exit |-> "timeout", write |-> w, diag |-> "none"] :
            w \in {NoContent} \cup {Content(JsonStringify(d)) : d \in ScriptDocs}}

WriteFile(files, path, content) == [files EXCEPT ![path] = content]

OutputPath(q) == Path("json", q.ts)

AfterExecIgnoringFailure(q, run) ==
    [q EXCEPT !.run = run, !.pc = IF q.variant = "express" THEN "access" ELSE "read"]

\* the handler after `await execAsync(...)`: on rejection the Next.js handler lands in its
\* catch, the Express one answers the two recognised problems and rethrows the rest
AfterExec(q, run) ==
    IF run.exit = "ok"
    THEN [q EXCEPT !.run = run, !.pc = IF q.variant = "express" THEN "access" ELSE "read"]
    ELSE Answer([q EXCEPT !.run = run],
                JsonResp(500, FALSE,
                         IF q.variant = "express" /\ run.diag = "apikey" THEN ErrApiKey
                         ELSE IF q.variant = "express" /\ run.diag = "init" THEN ErrInit
                         ELSE ErrExec,
                         JNull))

\* the generator subprocess ends (or is killed at the timeout) and the exec promise settles
GeneratorExit(r, run) ==
    /\ reqs[r].pc = "exec"
    /\ reqs[r].endpoint = "generate"
    /\ fs' = IF run.write.exists THEN WriteFile(fs, OutputPath(reqs[r]), run.write) ELSE fs
    /\ reqs' = [reqs EXCEPT ![r] = AfterExec(reqs[r], run)]
    /\ UNCHANGED <<server, tempDir, now>>

\* express only: fs.access(outputPath) settles
GenerateAccessDone(r) ==
    /\ reqs[r].pc = "access"
    /\ reqs' = [reqs EXCEPT ![r] =
                  IF fs[OutputPath(reqs[r])].exists THEN [reqs[r] EXCEPT !.pc = "read"]
                  ELSE Answer(reqs[r], JsonResp(500, FALSE, ErrNoOutput, JNull))]
    /\ UNCHANGED <<fs, server, tempDir, now>>

\* `BOOT-${Date.now()}` (Next.js) and `BOOT-${Date.now().toString().slice(-6)}` (Express)
Kode(variant, t) == JStrT("BOOT-", IF variant = "express" THEN t % KodeModulus ELSE t)

\* new Date(t).toISOString()
IsoString(t) == JStrT("ISO-", t)

\* the identitas block built from the request
Identitas(q, t) ==
    JObj(<<Member("nama", Field(q.body, "nama")),
           Member("kode", Kode(q.variant, t)),
           Member("durasi", Field(q.body, "durasi")),
           Member("tipe", JStr("Hybrid")),
           Member("level", Field(q.body, "level")),
           Member("kapasitas", JNum(Kapasitas))>>)

EnrichKeepingIdentitas(q, doc, t1, t2) ==
    JObj(SetMember(SetMember(SetMember(
            IF HasKey(doc, "identitas") THEN doc.m
            ELSE SetMember(doc.m, "identitas", Identitas(q, t1)),
            "id", JStrT("boot-", t2)),
            "createdAt", IsoString(t2)),
            "updatedAt", IsoString(t2)))

\* bootcampData after the four assignments (identitas, id, createdAt, updatedAt)
Enrich(q, doc, t1, t2) ==
    JObj(SetMember(SetMember(SetMember(SetMember(doc.m,
            "identitas", Identitas(q, t1)),
            "id", JStrT("boot-", t2)),
            "createdAt", IsoString(t2)),
            "updatedAt", IsoString(t2)))

\* fs.readFile(outputPath) settles; then JSON.parse and the metadata, up to `await fs.unlink`.
\* The clock read for kode may be one millisecond behind the later reads
GenerateReadDone(r, t2) ==
    LET q == reqs[r]
        file == fs[OutputPath(q)]
        parsed == JsonParse(file.text)
        q1 == [q EXCEPT !.readOut = TRUE, !.input = file]
    IN  /\ q.pc = "read"
        /\ q.endpoint = "generate"
        /\ t2 \in {now, now + 1}
        /\ t2 <= MaxTime
        /\ IF ~file.exists
           THEN reqs' = [reqs EXCEPT ![r] = Answer(q1, JsonResp(500, FALSE, ErrNoEnt, JNull))]
                /\ UNCHANGED now
           ELSE IF ~parsed.ok
           THEN reqs' = [reqs EXCEPT ![r] = Answer(q1, JsonResp(500, FALSE, ErrParse, JNull))]
                /\ UNCHANGED now
           ELSE reqs' = [reqs EXCEPT ![r] =
                          [q1 EXCEPT !.pc = "unlink", !.data = Enrich(q, parsed.val, now, t2)]]
                /\ now' = t2
        /\ UNCHANGED <<fs, server, tempDir>>

\* fs.unlink(path).catch(() => {}) : the file goes if it is there
Unlink(files, path) == [files EXCEPT ![path] = NoContent]

\* `await fs.unlink(outputPath).catch(...)` settles and the 200 answer is sent
GenerateUnlinkDone(r) ==
    /\ reqs[r].pc = "unlink"
    /\ reqs[r].endpoint = "generate"
    /\ fs' = Unlink(fs, OutputPath(reqs[r]))
    /\ reqs' = [reqs EXCEPT ![r] =
                  Answer([reqs[r] EXCEPT !.unlinked = @ \cup {"json"}],
                         JsonResp(200, TRUE, "", reqs[r].data))]
    /\ UNCHANGED <<server, tempDir, now>>

-----------------------------------------------------------------------------
(* API layer: the convert endpoint (express_api.js).                        *)

ConvertInvalidBodyOnly(body) == ~JsTruthy(body)

\* !bootcampData || !bootcampData.identitas
ConvertInvalid(body) == ~JsTruthy(body) \/ ~JsTruthy(Field(body, "identitas"))

JsonPath(q) == Path("json", q.ts)
DocxPath(q) == Path("docx", q.ts)

\* the convert handler from the request to its first await (fs.writeFile)
ConvertReceive(r, body) ==
    LET q == [IdleReq EXCEPT !.variant = server, !.endpoint = "convert", !.body = body]
    IN  /\ reqs[r].pc = "idle"
        /\ server = "express"
        /\ reqs' = [reqs EXCEPT ![r] =
                      IF ConvertInvalid(body)
                      THEN Answer(q, JsonResp(400, FALSE, ErrInvalidData, JNull))
                      ELSE [q EXCEPT !.pc = "write", !.ts = now]]
        /\ UNCHANGED <<fs, server, tempDir, now>>

\* fs.writeFile(jsonPath, JSON.stringify(bootcampData, null, 2)) settles: the file is
\* there and exec starts, or the temp directory is missing and the handler lands in its catch
ConvertWriteDone(r) ==
    LET q == reqs[r]
    IN  /\ q.pc = "write"
        /\ IF tempDir
           THEN /\ fs' = WriteFile(fs, JsonPath(q), Content(JsonStringify(q.body)))
                /\ reqs' = [reqs EXCEPT ![r].pc = "exec", ![r].wrote = TRUE,
                                        ![r].spawned = TRUE]
           ELSE /\ reqs' = [reqs EXCEPT ![r] = Answer(q, JsonResp(500, FALSE, ErrNoEnt, JNull))]
                /\ UNCHANGED fs
        /\ UNCHANGED <<server, tempDir, now>>

\* how a run of json_to_docx.py on the file `input` may end: the document it wrote is
\* made from the input it found
ConverterRuns(input) ==
    {[exit |-> e, write |-> NoContent, diag |-> "none"] : e \in {"ok", "fail", "timeout"}}
    \cup (IF input.exists THEN {[exit |-> "ok", write |-> input, diag |-> "none"]} ELSE {})

\* the converter subprocess ends (or is killed after one minute) and the exec promise settles
ConverterExit(r, run) ==
    LET q == reqs[r]
    IN  /\ q.pc = "exec"
        /\ q.endpoint = "convert"
        /\ run \in ConverterRuns(fs[JsonPath(q)])
        /\ fs' = IF run.write.exists THEN WriteFile(fs, DocxPath(q), run.write) ELSE fs
        /\ reqs' = [reqs EXCEPT ![r] =
                      IF run.exit = "ok" THEN [q EXCEPT !.run = run, !.pc = "read"]
                      ELSE Answer([q EXCEPT !.run = run], JsonResp(500, FALSE, ErrExec, JNull))]
        /\ UNCHANGED <<server, tempDir, now>>

\* fs.readFile(docxPath) settles
ConvertReadDone(r) ==
    LET q == reqs[r]
        file == fs[DocxPath(q)]
    IN  /\ q.pc = "read"
        /\ q.endpoint = "convert"
        /\ reqs' = [reqs EXCEPT ![r] =
                      IF file.exists THEN [q EXCEPT !.readOut = TRUE, !.buf = file, !.pc = "unlink"]
                      ELSE Answer([q EXCEPT !.readOut = TRUE],
                                  JsonResp(500, FALSE, ErrNoEnt, JNull))]
        /\ UNCHANGED <<fs, server, tempDir, now>>

\* `await fs.unlink(jsonPath).catch(...)` settles
ConvertUnlinkJsonDone(r) ==
    /\ reqs[r].pc = "unlink"
    /\ reqs[r].endpoint = "convert"
    /\ fs' = Unlink(fs, JsonPath(reqs[r]))
    /\ reqs' = [reqs EXCEPT ![r].pc = "unlink2", ![r].unlinked = @ \cup {"json"}]
    /\ UNCHANGED <<server, tempDir, now>>

\* `await fs.unlink(docxPath).catch(...)` settles and the document is sent
ConvertUnlinkDocxDone(r) ==
    /\ reqs[r].pc = "unlink2"
    /\ fs' = Unlink(fs, DocxPath(reqs[r]))
    /\ reqs' = [reqs EXCEPT ![r] =
                  Answer([reqs[r] EXCEPT !.unlinked = @ \cup {"docx"}], FileResp(reqs[r].buf))]
    /\ UNCHANGED <<server, tempDir, now>>

-----------------------------------------------------------------------------
(* The servers: requests arrive, their awaits settle in any order, the      *)
(* clock advances.                                                          *)

ValidBody ==
    JObj(<<Member("nama", JStr("Web Dev")), Member("durasi", JNum(8)),
           Member("level", JStr("Beginner")), Member("deskripsi", JStr("Learn web dev"))>>)

Without(obj, key) == JObj(SelectSeq(obj.m, LAMBDA mem : mem.key # key))

\* request bodies of the generate endpoint: complete, one field missing, one field falsy
GenerateBodies ==
    {ValidBody}
    \cup {Without(ValidBody, key) : key \in {"nama", "durasi", "level", "deskripsi"}}
    \cup {JObj(SetMember(ValidBody.m, "durasi", JNum(0)))}

\* request bodies of the convert endpoint: none, no identitas, a falsy identitas, a document
ConvertBodies ==
    {JUndefined,
     JObj(<<Member("modules", JArr(<<>>))>>),
     JObj(<<Member("identitas", JNull)>>),
     JObj(<<Member("identitas", JObj(<<Member("nama", JStr("Web Dev"))>>))>>)}

\* the client has the answer; the slot serves the next request
RequestClosed(r) ==
    /\ reqs[r].pc = "done"
    /\ reqs' = [reqs EXCEPT ![r] = IdleReq]
    /\ UNCHANGED <<fs, server, tempDir, now>>

\* a millisecond passes
Tick ==
    /\ now < MaxTime
    /\ now' = now + 1
    /\ UNCHANGED <<reqs, fs, server, tempDir>>

\* slots are interchangeable: a request takes the lowest free one
LowestFree(r) == \A r2 \in ReqIds : r2 < r => reqs[r2].pc # "idle"

\* the awaits of the requests in progress settle in any order
NextApi ==
    \/ \E r \in ReqIds : \E body \in GenerateBodies :
        LowestFree(r) /\ GenerateReceive(r, body) /\ UNCHANGED uiVars
    \/ \E r \in ReqIds : \E method \in {"GET", "OPTIONS"} : \E body \in {JUndefined, ValidBody} :
        LowestFree(r) /\ GenerateOtherMethod(r, method, body) /\ UNCHANGED uiVars
    \/ \E r \in ReqIds : GenerateMkdirDone(r) /\ UNCHANGED uiVars
    \/ \E r \in ReqIds : \E run \in GeneratorRuns : GeneratorExit(r, run) /\ UNCHANGED uiVars
    \/ \E r \in ReqIds : GenerateAccessDone(r) /\ UNCHANGED uiVars
    \/ \E r \in ReqIds : \E t2 \in 0..MaxTime : GenerateReadDone(r, t2) /\ UNCHANGED uiVars
    \/ \E r \in ReqIds : GenerateUnlinkDone(r) /\ UNCHANGED uiVars
    \/ \E r \in ReqIds : \E body \in ConvertBodies :
        LowestFree(r) /\ ConvertReceive(r, body) /\ UNCHANGED uiVars
    \/ \E r \in ReqIds : ConvertWriteDone(r) /\ UNCHANGED uiVars
    \/ \E r \in ReqIds : \E run \in ConverterRuns(fs[JsonPath(reqs[r])]) :
        ConverterExit(r, run) /\ UNCHANGED uiVars
    \/ \E r \in ReqIds : ConvertReadDone(r) /\ UNCHANGED uiVars
    \/ \E r \in ReqIds : ConvertUnlinkJsonDone(r) /\ UNCHANGED uiVars
    \/ \E r \in ReqIds : ConvertUnlinkDocxDone(r) /\ UNCHANGED uiVars
    \/ \E r \in ReqIds : RequestClosed(r) /\ UNCHANGED uiVars
    \/ Tick /\ UNCHANGED uiVars

\* either server, started with or without a temp directory left by an earlier run
InitServers ==
    /\ InitForm /\ InitContainer /\ InitApi
    /\ server \in Variants
    /\ tempDir \in BOOLEAN

SpecApi == InitServers /\ [][NextApi]_vars

-----------------------------------------------------------------------------
(* Claims about the API layer.                                              *)

Answered(q) == q.pc = "done"

RequiredFields == {"nama", "durasi", "level", "deskripsi"}

\* the body has no entry for at least one required field
LacksRequired(body) == \E key \in RequiredFields : ~HasKey(body, key)

NothingStarted(q) == ~q.mkdir /\ ~q.wrote /\ ~q.spawned /\ ~q.readOut /\ q.unlinked = {}

\* C3 as stated: a POST to the generate endpoint whose body lacks a required field is
\* answered 400 {success:false, error:"Missing required fields"} by both variants, with no temp
\* directory or file created and no subprocess spawned.
C3_Missing400SameBody ==
    \A r \in ReqIds :
        (/\ Answered(reqs[r]) /\ reqs[r].endpoint = "generate" /\ reqs[r].method = "POST"
         /\ LacksRequired(reqs[r].body)) =>
            /\ reqs[r].resp = JsonResp(400, FALSE, "Missing required fields", JNull)
            /\ NothingStarted(reqs[r])

\* C3 amended: such a request is answered 400 with success:false and an error text
\* that is "Missing required fields" in the Next.js variant and "Missing required
\* fields: nama, durasi, level, deskripsi" in the Express variant, with no temp
\* directory or file created and no subprocess spawned.
C3_Missing400 ==
    \A r \in ReqIds :
        (/\ Answered(reqs[r]) /\ reqs[r].endpoint = "generate" /\ reqs[r].method = "POST"
         /\ LacksRequired(reqs[r].body)) =>
            /\ reqs[r].resp.status = 400
            /\ ~reqs[r].resp.success
            /\ reqs[r].resp.data = JNull
            /\ reqs[r].resp.error =
                 (IF server = "next" THEN "Missing required fields"
                  ELSE "Missing required fields: nama, durasi, level, deskripsi")
            /\ NothingStarted(reqs[r])

\* the Express server has answered a request whose body has no deskripsi
C3_Witness ==
    \E r \in ReqIds :
        /\ Answered(reqs[r]) /\ reqs[r].endpoint = "generate" /\ server = "express"
        /\ reqs[r].method = "POST"
        /\ ~HasKey(reqs[r].body, "deskripsi")
        /\ HasKey(reqs[r].body, "nama")
        /\ reqs[r].resp.status = 400

\* C4: a convert request whose body is absent or has no identitas is answered 400
\* {success:false, error:"Invalid bootcamp data"}; no temp file is written and no
\* converter is spawned.
C4_Invalid400 ==
    \A r \in ReqIds :
        (/\ Answered(reqs[r]) /\ reqs[r].endpoint = "convert"
         /\ (reqs[r].body = JUndefined \/ ~HasKey(reqs[r].body, "identitas"))) =>
            /\ reqs[r].resp = JsonResp(400, FALSE, "Invalid bootcamp data", JNull)
            /\ NothingStarted(reqs[r])

\* a document with modules but no identitas was sent and answered 400
C4_Witness ==
    \E r \in ReqIds :
        /\ Answered(reqs[r]) /\ reqs[r].endpoint = "convert"
        /\ HasKey(reqs[r].body, "modules") /\ ~HasKey(reqs[r].body, "identitas")
        /\ reqs[r].resp.status = 400

\* the temp files of a request that passed validation
TempFiles(q) == IF q.endpoint = "convert" THEN {"json", "docx"} ELSE {"json"}

\* C5: once a request that got as far as choosing its temp paths has been answered,
\* with 200 or with 500, an unlink has been attempted on each of its temp files.
C5_TempFilesUnlinked ==
    \A r \in ReqIds :
        (Answered(reqs[r]) /\ reqs[r].resp.status \in {200, 500}) =>
            reqs[r].unlinked = TempFiles(reqs[r])

\* C8: when the generator is killed at its timeout or exits abnormally, the request
\* is answered 500 with success:false, the output file is never read, and no
\* document is sent.
C8_FailureIs500 ==
    \A r \in ReqIds :
        (/\ Answered(reqs[r]) /\ reqs[r].endpoint = "generate"
         /\ reqs[r].run.exit \in {"fail", "timeout"}) =>
            /\ reqs[r].resp.status = 500
            /\ ~reqs[r].resp.success
            /\ reqs[r].resp.data = JNull
            /\ ~reqs[r].readOut
            /\ reqs[r].input = NoContent

\* the generator wrote its whole output and was then killed at the timeout
C8_Witness ==
    \E r \in ReqIds :
        /\ Answered(reqs[r]) /\ reqs[r].endpoint = "generate"
        /\ reqs[r].run.exit = "timeout"
        /\ reqs[r].run.write.exists
        /\ fs[OutputPath(reqs[r])].exists
        /\ reqs[r].resp.status = 500

MetadataKeys == {"identitas", "id", "createdAt", "updatedAt"}

Times == 0..MaxTime

\* a string made of `prefix` and digits taken from the clock
TimeString(v, prefix) == v.k = "str" /\ v.s = prefix /\ v.n \in Times

\* C10: when the generator exits normally and the handler reads a JSON document
\* from its output path, the answer is {success:true, data} where data is that
\* document with identitas = {nama, durasi, level of the request, kode from the
\* clock, tipe 'Hybrid', kapasitas 25}, id 'boot-...', createdAt and updatedAt set,
\* whatever the script wrote under those keys, and every other key unchanged.
C10_EnrichedDocument ==
    \A r \in ReqIds :
        LET q == reqs[r]
            out == JsonParse(q.input.text)
            data == q.resp.data
            idn == Get(data, "identitas")
        IN  (/\ Answered(q) /\ q.endpoint = "generate" /\ q.run.exit = "ok"
             /\ q.input.exists /\ out.ok) =>
                /\ q.resp.status = 200
                /\ q.resp.success
                /\ data.k = "obj"
                /\ Keys(data) = Keys(out.val) \cup MetadataKeys
                /\ \A key \in Keys(out.val) \ MetadataKeys : Get(data, key) = Get(out.val, key)
                /\ idn.k = "obj"
                /\ Keys(idn) = {"nama", "kode", "durasi", "tipe", "level", "kapasitas"}
                /\ Get(idn, "nama") = Get(q.body, "nama")
                /\ Get(idn, "durasi") = Get(q.body, "durasi")
                /\ Get(idn, "level") = Get(q.body, "level")
                /\ TimeString(Get(idn, "kode"), "BOOT-")
                /\ Get(idn, "tipe") = JStr("Hybrid")
                /\ Get(idn, "kapasitas") = JNum(25)
                /\ TimeString(Get(data, "id"), "boot-")
                /\ TimeString(Get(data, "createdAt"), "ISO-")
                /\ TimeString(Get(data, "updatedAt"), "ISO-")

\* the script wrote its own identitas and id, and the answer carries the endpoint's
C10_Witness ==
    \E r \in ReqIds :
        LET q == reqs[r]
            out == JsonParse(q.input.text)
        IN  /\ Answered(q) /\ q.endpoint = "generate" /\ q.run.exit = "ok"
            /\ q.input.exists /\ out.ok
            /\ HasKey(out.val, "identitas") /\ HasKey(out.val, "id")
            /\ q.resp.status = 200
            /\ Get(q.resp.data, "identitas") # Get(out.val, "identitas")
            /\ Get(q.resp.data, "modules") = Get(out.val, "modules")

\* C12: a request to the generate endpoint with a method other than POST is answered
\* 405 with success:false by both variants, and nothing of the handler's work (temp
\* directory, temp file, subprocess) happens for it.
C12_OtherMethod405 ==
    \A r \in ReqIds :
        (Answered(reqs[r]) /\ reqs[r].endpoint = "generate" /\ reqs[r].method # "POST") =>
            /\ reqs[r].resp.status = 405
            /\ reqs[r].resp.kind = "json"
            /\ ~reqs[r].resp.success
            /\ NothingStarted(reqs[r])

\* C14: whatever the interleaving of concurrent requests, an answer carries only what
\* the request's own subprocess produced from its own input: a generate request that
\* answers 200 has read the file its own generator wrote, and a convert request that
\* sends a document sends the one made from its own body.
C14_OwnTempFiles ==
    \A r \in ReqIds :
        LET q == reqs[r]
        IN  /\ (Answered(q) /\ q.endpoint = "generate" /\ q.resp.status = 200) =>
                  q.input = q.run.write
            /\ (Answered(q) /\ q.endpoint = "convert" /\ q.resp.kind = "file") =>
                  q.resp.file = Content(JsonStringify(q.body))

-----------------------------------------------------------------------------
(* The Convert to DOCX button.  handleConvertToDocx changes the element      *)
(* #btn-convert-docx directly; React creates the element anew whenever the   *)
(* editor section, which holds it, is rendered again after being removed.    *)

MaxConverts == 2
MaxMounts == 2

\* document.getElementById('btn-convert-docx') after the render that follows a state
\* change: the section and its button go when the condition is falsy and are created
\* anew, the button enabled and with its idle label, when it is truthy again
Rerender ==
    /\ (EditorRendered' /\ ~button.mounted) => button.el < MaxMounts
    /\ button' = IF ~EditorRendered' THEN [button EXCEPT !.mounted = FALSE]
                 ELSE IF button.mounted THEN button
                 ELSE [NoButton EXCEPT !.mounted = TRUE, !.el = button.el + 1]

\* btn.disabled = false; btn.innerText = idle label, a null btn left alone
Reset(btn) == IF btn.mounted THEN [btn EXCEPT !.disabled = FALSE, !.label = "Convert to DOCX"]
              ELSE btn

\* a click on the button: handleConvertToDocx up to its first await.  A buffer that does
\* not parse lands in the catch block; otherwise the button is disabled and the POST sent
HandleConvertToDocx ==
    LET parsed == JsonParse(jsonContent)
    IN  /\ button.mounted /\ ~button.disabled
        /\ IF parsed.ok
           THEN /\ Len(converts) < MaxConverts
                /\ button' = [button EXCEPT !.disabled = TRUE, !.label = "Converting..."]
                /\ converts' = Append(converts, [el |-> button.el, body |-> parsed.val])
                /\ effects' = <<>>
           ELSE /\ button' = Reset(button)
                /\ effects' = <<Alert("Error converting to DOCX: ")>>
                /\ UNCHANGED converts
        /\ last' = [op |-> "convert", ret |-> parsed.ok]
        /\ calls' = <<>>
        /\ UNCHANGED <<formData, errors, loading, generatedData, jsonContent, net, reader, timers>>

\* the rest of handleConvertToDocx once the fetch of conversion i settles with an OK
\* response and its blob, a non-OK response, or a rejection.  On success
\* the element captured before the await gets the success label and a timer; in the
\* catch block the element is looked up again
ConvertSettled(i, outcome) ==
    LET c == converts[i]
    IN  /\ converts' = RemoveAt(converts, i)
        /\ IF outcome = "ok"
           THEN /\ effects' = <<[fn |-> "download", msg |-> "docx", text |-> <<>>]>>
                /\ button' = IF button.mounted /\ button.el = c.el
                             THEN [button EXCEPT !.label = "Downloaded!"] ELSE button
                /\ timers' = Append(timers, c.el)
           ELSE /\ effects' = <<Alert("Error converting to DOCX: ")>>
                /\ button' = Reset(button)
                /\ UNCHANGED timers
        /\ last' = [op |-> "convertSettled", ret |-> outcome = "ok"]
        /\ calls' = <<>>
        /\ UNCHANGED <<formData, errors, loading, generatedData, jsonContent, net, reader>>

\* the oldest setTimeout callback runs, two seconds after its success: it resets the
\* element it captured
TimerFires ==
    /\ timers # <<>>
    /\ button' = IF button.el = timers[1] THEN Reset(button) ELSE button
    /\ timers' = Tail(timers)
    /\ effects' = <<>>
    /\ last' = [op |-> "timer", ret |-> TRUE]
    /\ calls' = <<>>
    /\ UNCHANGED <<formData, errors, loading, generatedData, jsonContent, net, reader, converts>>

\* file and editor texts: null, the empty text, a malformed text, a document
ConvertTexts ==
    {<<Tok("null")>>, <<>>, <<Tok("{")>>,
     <<Tok("{"), TStr("identitas", NoSuffix), Tok(":"), TNum(1), Tok("}")>>}

NextConvert ==
    \/ \E t \in ConvertTexts \ {<<>>} :
        HandleLoadJson(File(t)) /\ UNCHANGED <<apiVars, convertVars>>
    \/ \E i \in DOMAIN reader :
        ReaderOnLoad(i) /\ Rerender /\ UNCHANGED <<converts, timers>> /\ UNCHANGED apiVars
    \/ \E text \in ConvertTexts :
        EditorChange(text) /\ Rerender /\ UNCHANGED <<converts, timers>> /\ UNCHANGED apiVars
    \/ HandleConvertToDocx /\ UNCHANGED apiVars
    \/ \E i \in DOMAIN converts : \E outcome \in {"ok", "notOk", "reject"} :
        ConvertSettled(i, outcome) /\ UNCHANGED apiVars
    \/ TimerFires /\ UNCHANGED apiVars

SpecConvert == Init /\ [][NextConvert]_vars

\* C13: while a convert request is in flight the button on the page is disabled.
C13_DisabledWhileConverting ==
    converts # <<>> => (button.mounted => button.disabled)

====
